---- MODULE Spec2Model ----
(***************************************************************************)
(* A model of the um-32 universal machine (src/src/machine.rs) and of the  *)
(* way src/src/main.rs drives it: Machine::default, extend_from, add_input *)
(* and run.  Words are 32 bits wide; a Vec<u32> is a handle into `store`,  *)
(* so that moving, cloning and dropping backing storage are visible.       *)
(***************************************************************************)
EXTENDS Integers, Sequences, FiniteSets, TLC

\* ------------------------------------------------------------------ bounds

\* Longest program image enumerated exhaustively over the words of Platters.
MaxImageLen == 3
\* Instructions one run may dispatch before the model stops following it.
MaxSteps == 14
\* Heap slots (arrays.len()) beyond which op 8 is no longer followed.
MaxArrays == 4
\* Largest capacity op 8 is followed on.
MaxCap == 4
\* Bytes followed on the external source before it is at end of input.
MaxStdin == 2

\* ------------------------------------------------------------------- words

(* A u32 is the pair <<hi, lo>> of its 16-bit halves: the model checker's   *)
(* integers are 32-bit signed and cannot hold 2^32 - 1.                      *)
\* n as u32, for 0 <= n < 2^31.
FromNat(n) == <<n \div 65536, n % 65536>>

\* w as usize, when it is below 2^31.
Fits(w) == w[1] < 32768

ToNat(w) == w[1] * 65536 + w[2]

\* (w as usize) < n, for a length n.
Below(w, n) == Fits(w) /\ ToNat(w) < n

Zero == <<0, 0>>

\* x >= y on u32 (x may carry a 33rd bit in its high half).
Geq(x, y) == x[1] > y[1] \/ (x[1] = y[1] /\ x[2] >= y[2])

\* wrapping_add on u32.
WrappingAdd(x, y) ==
    LET lo == x[2] + y[2]
    IN  <<(x[1] + y[1] + lo \div 65536) % 65536, lo % 65536>>

\* x - y for x >= y (x may carry a 33rd bit in its high half).
Minus(x, y) ==
    LET borrow == IF x[2] < y[2] THEN 1 ELSE 0
    IN  <<x[1] - y[1] - borrow, x[2] + 65536 * borrow - y[2]>>

\* wrapping_sub on u32.
WrappingSub(x, y) ==
    LET borrow == IF x[2] < y[2] THEN 1 ELSE 0
    IN  <<(x[1] - y[1] - borrow) % 65536, x[2] + 65536 * borrow - y[2]>>

\* (x * y) mod 2^16 for 16-bit x, y, without leaving 31 bits.
MulLow16(x, y) ==
    ((x % 256) * y + ((x \div 256) * (y % 256) % 256) * 256) % 65536

\* x * y for 16-bit x, y, as a u32.
MulFull16(x, y) ==
    LET p0 == (x % 256) * y
        p1 == (x \div 256) * y
        low == (p1 % 256) * 256 + p0
    IN  <<p1 \div 256 + low \div 65536, low % 65536>>

\* wrapping_mul on u32.
WrappingMul(x, y) ==
    LET ll == MulFull16(x[2], y[2])
    IN  <<(ll[1] + MulLow16(x[1], y[2]) + MulLow16(x[2], y[1])) % 65536, ll[2]>>

\* x & y on 16 bits, bit by bit.
RECURSIVE And16(_, _)
And16(x, y) ==
    IF x = 0 \/ y = 0 THEN 0
    ELSE (IF x % 2 = 1 /\ y % 2 = 1 THEN 1 ELSE 0) + 2 * And16(x \div 2, y \div 2)

\* !(x & y) on u32.
NotAnd(x, y) == <<65535 - And16(x[1], y[1]), 65535 - And16(x[2], y[2])>>

\* 2^i for i in 0..15.
RECURSIVE Pow2(_)
Pow2(i) == IF i = 0 THEN 1 ELSE 2 * Pow2(i - 1)

\* Bit i (0..31) of x.
Bit(x, i) == IF i >= 16 THEN (x[1] \div Pow2(i - 16)) % 2 ELSE (x[2] \div Pow2(i)) % 2

\* x with bit i (0..31) set, that bit being clear.
SetBit(x, i) == IF i >= 16 THEN <<x[1] + Pow2(i - 16), x[2]>> ELSE <<x[1], x[2] + Pow2(i)>>

\* Unsigned long division, from bit i of n down: quotient so far q,
\* remainder so far r.
RECURSIVE DivLoop(_, _, _, _, _)
DivLoop(n, d, i, q, r) ==
    IF i < 0 THEN q
    ELSE LET low == 2 * r[2] + Bit(n, i)
             r2 == <<2 * r[1] + low \div 65536, low % 65536>>
         IN  IF Geq(r2, d)
             THEN DivLoop(n, d, i - 1, SetBit(q, i), Minus(r2, d))
             ELSE DivLoop(n, d, i - 1, q, r2)

\* Mutant: the operands of the division taken in the wrong order.
QuotientSwapped(x, divisor) == DivLoop(divisor, x, 31, Zero, Zero)

\* x / divisor on u32, divisor non-zero.
Quotient(x, divisor) == DivLoop(x, divisor, 31, Zero, Zero)

\* ch as u8 (the echo of op 11, the byte written by op 10).
AsU8(ch) == ch % 256

\* ------------------------------------------------------------------ decode

\* inst >> 28
OpOf(inst) == inst[1] \div 4096

\* The decode with the three-register layout for every operation.
DecodeOneLayout(inst) ==
    [a |-> FromNat((inst[2] \div 64) % 8),
     b |-> FromNat((inst[2] \div 8) % 8),
     c |-> FromNat(inst[2] % 8)]

\* The (a, b, c) of run: three 3-bit fields when op < 13, otherwise the
\* register of bits 25..27 and the 25-bit immediate.
Decode(inst) ==
    IF OpOf(inst) < 13
    THEN [a |-> FromNat((inst[2] \div 64) % 8),
          b |-> FromNat((inst[2] \div 8) % 8),
          c |-> FromNat(inst[2] % 8)]
    ELSE [a |-> FromNat((inst[1] \div 512) % 8),
          b |-> <<inst[1] % 512, inst[2]>>,
          c |-> Zero]

\* ------------------------------------------------------------------- state

VARIABLES
    pc,           \* Machine.pc
    registers,    \* Machine.registers: 0..7 -> u32
    arrays,       \* Machine.arrays: slot i is arrays[i + 1], None or Some(handle)
    free_arrays,  \* Machine.free_arrays: a stack of <<id, handle>>
    input,        \* Machine.input: the seeded chars
    store,        \* the live Vec<u32> buffers: handle -> words
    stdout,       \* the bytes written to the output sink
    stdinRead,    \* the bytes run has taken from the external source
    stdinEof,     \* the external source has signalled end of input
    state,        \* where main is: "setup", "seeded", "running", "halted", "error"
    err,          \* the Error run returned (NoError until then)
    last,         \* the dispatch traced last: fetched or not, pc, op, a, b, c
    pre,          \* the machine as it was when that instruction was fetched
    outstanding,  \* history: ids abandoned and not reissued since, oldest first
    copyOf,       \* history: the array op 12 last copied over array 0 (Zero: none)
    delivered,    \* history: what op 11 handed over, in order: [src, ch]
    seeded,       \* history: every char add_input has queued, in order
    steps         \* instructions dispatched by this run

vars == <<pc, registers, arrays, free_arrays, input, store, stdout, stdinRead,
          stdinEof, state, err, last, pre, outstanding, copyOf, delivered,
          seeded, steps>>

\* Option<Vec<u32>>
None == <<>>

Some(h) == <<h>>

Unwrap(slot) == slot[1]

NumArrays == Len(arrays)

\* arrays.get(array): Some(Some(_))
IsActive(arrs, array) == Below(array, Len(arrs)) /\ arrs[ToNat(array) + 1] # None

\* The words of active array `array`.
Contents(arrs, st, array) == st[Unwrap(arrs[ToNat(array) + 1])]

\* A buffer the allocator has not handed out: the least unused handle.
NewHandle(st) == CHOOSE h \in 0..Cardinality(DOMAIN st) :
    h \notin DOMAIN st /\ \A g \in 0..Cardinality(DOMAIN st) : g \notin DOMAIN st => h <= g

\* st with buffer h holding words.
Put(st, h, words) == [g \in DOMAIN st \cup {h} |-> IF g = h THEN words ELSE st[g]]

\* st with buffer h dropped.
Drop(st, h) == [g \in DOMAIN st \ {h} |-> st[g]]

\* ------------------------------------------------------------------ errors

NoError == [kind |-> "None"]

DivisionByZero(p) == [kind |-> "DivisionByZero", pc |-> p]

InfiniteLoop(p) == [kind |-> "InfiniteLoop", pc |-> p]

InactiveArray(p, array) == [kind |-> "InactiveArray", pc |-> p, array |-> array]

InvalidChar(p, ch) == [kind |-> "InvalidChar", pc |-> p, ch |-> ch]

InvalidOp(p, op) == [kind |-> "InvalidOp", pc |-> p, op |-> op]

OutOfBounds(p, array, offset, len) ==
    [kind |-> "OutOfBounds", pc |-> p, array |-> array, offset |-> offset, len |-> len]

\* From<std::io::Error>: what a failed read of the external source becomes.
IOError == [kind |-> "IO"]

\* ------------------------------------------------------- heap primitives

\* read_value with a read past the end answered by 0 instead of an error.
ReadValueLenient(arrs, st, p, array, offset) ==
    IF IsActive(arrs, array)
    THEN LET a == Contents(arrs, st, array)
         IN  IF Below(offset, Len(a))
             THEN [ok |-> TRUE, val |-> a[ToNat(offset) + 1]]
             ELSE [ok |-> TRUE, val |-> Zero]
    ELSE [ok |-> FALSE, err |-> InactiveArray(p, array)]

\* Machine::read_value: Ok(word), or the error it returns.
ReadValue(arrs, st, p, array, offset) ==
    IF IsActive(arrs, array)
    THEN LET a == Contents(arrs, st, array)
         IN  IF Below(offset, Len(a))
             THEN [ok |-> TRUE, val |-> a[ToNat(offset) + 1]]
             ELSE [ok |-> FALSE, err |-> OutOfBounds(p, array, offset, FromNat(Len(a)))]
    ELSE [ok |-> FALSE, err |-> InactiveArray(p, array)]

\* Machine::write_value: Ok with the amended store, or the error it returns.
WriteValue(arrs, st, p, array, offset, val) ==
    IF IsActive(arrs, array)
    THEN LET h == Unwrap(arrs[ToNat(array) + 1])
         IN  IF Below(offset, Len(st[h]))
             THEN [ok |-> TRUE, store |-> [st EXCEPT ![h][ToNat(offset) + 1] = val]]
             ELSE [ok |-> FALSE, err |-> OutOfBounds(p, array, offset, FromNat(Len(st[h])))]
    ELSE [ok |-> FALSE, err |-> InactiveArray(p, array)]

\* Machine::read_reg
ReadReg(reg) == registers[ToNat(reg)]

\* Machine::write_reg
WriteReg(reg, val) == [registers EXCEPT ![ToNat(reg)] = val]

\* vec![0; cap]
Zeros(cap) == [i \in 1..cap |-> Zero]

\* Vec::resize(cap, 0): truncate, or extend with zeros.
Resize(words, cap) ==
    IF cap <= Len(words) THEN SubSeq(words, 1, cap)
    ELSE words \o Zeros(cap - Len(words))

\* <[u32]>::fill(0)
Fill(words) == [i \in 1..Len(words) |-> Zero]

\* Mutant: the fill is skipped, the resize alone is trusted to zero.
RecycleNoFill(words, cap) == Resize(words, cap)

\* The storage op 8 binds to a recycled identifier.
Recycle(words, cap) == Fill(Resize(words, cap))

\* Mutant: the top entry is read and left on the free list.
PopKeep(stack) == [top |-> stack[Len(stack)], rest |-> stack]

\* Mutant: the oldest entry is taken, not the newest.
PopFront(stack) == [top |-> stack[1], rest |-> SubSeq(stack, 2, Len(stack))]

\* Vec::pop on the free list: the entry taken and the entries left.
Pop(stack) == [top |-> stack[Len(stack)], rest |-> SubSeq(stack, 1, Len(stack) - 1)]

\* Mutant: the buffer itself is handed over, not a copy of it.
CloneShared(st, h) == [handle |-> h, store |-> st]

\* Vec::clone: the words of a buffer, placed in a buffer of their own.
Clone(st, h) == [handle |-> NewHandle(st), store |-> Put(st, NewHandle(st), st[h])]

\* self.pc += 1
PcNext(p) == WrappingAdd(p, FromNat(1))

\* Mutant: the slot keeps its array.
TakeKeep(arrs, array) == arrs

\* Option::take on slot `array`: the slot is left None.
Take(arrs, array) == [arrs EXCEPT ![ToNat(array) + 1] = None]

\* Mutant: one too few, the index of the slot before the new one.
FreshIdStale(len) == WrappingSub(FromNat(len), FromNat(2))

\* self.arrays.len() as u32 - 1, len being the length after the push.
FreshId(len) == WrappingSub(FromNat(len), FromNat(1))

\* Mutant: array 0 is cloned over itself too.
LoadProgramAlwaysCopies(arrs, st, array) ==
    LET cloned == Clone(st, Unwrap(arrs[ToNat(array) + 1]))
    IN  [arrays |-> [arrs EXCEPT ![1] = Some(cloned.handle)],
         store |-> Drop(cloned.store, Unwrap(arrs[1]))]

\* The if array != 0 { .. } of op 12: array 0 becomes a clone of `array`
\* and its old buffer is dropped; nothing happens for array 0 itself.
LoadProgram(arrs, st, array) ==
    IF array # Zero
    THEN LET cloned == Clone(st, Unwrap(arrs[ToNat(array) + 1]))
         IN  [arrays |-> [arrs EXCEPT ![1] = Some(cloned.handle)],
              store |-> Drop(cloned.store, Unwrap(arrs[1]))]
    ELSE [arrays |-> arrs, store |-> st]

\* seq without the entries equal to x.
Without(seq, x) == SelectSeq(seq, LAMBDA y : y # x)

\* ------------------------------------------------------------------ inputs

\* A platter of the three-register layout, and one of the orthography layout.
Std(op, a, b, c) == <<op * 4096, a * 64 + b * 8 + c>>

Orth(a, imm) == <<13 * 4096 + a * 512 + imm \div 65536, imm % 65536>>

Halt == Std(7, 0, 0, 0)

\* The words the short images are made of.  Registers start at 0, so R7 is
\* a constant 0 (array 0, offset 0) in every short image.
Platters == {
    Orth(0, 1),          \* R0 := 1
    Std(8, 0, 1, 0),     \* R1 := allocate(R0)
    Std(8, 0, 2, 0),     \* R2 := allocate(R0)
    Std(9, 0, 0, 1),     \* abandon R1
    Std(9, 0, 0, 2),     \* abandon R2
    Std(2, 1, 7, 0),     \* array R1, offset 0 := R0
    Std(1, 3, 1, 7),     \* R3 := array R1, offset 0
    Std(12, 0, 1, 7),    \* load array R1, pc := 0
    Std(12, 0, 7, 0),    \* load array 0, pc := R0
    Std(5, 3, 0, 1),     \* R3 := R0 / R1
    Std(11, 0, 0, 0),    \* R0 := input
    Std(10, 0, 0, 0),    \* output R0
    Halt,
    Std(14, 0, 0, 0) }   \* no such operation

RECURSIVE SeqsUpTo(_, _)
SeqsUpTo(S, n) ==
    IF n = 0 THEN {<<>>}
    ELSE LET shorter == SeqsUpTo(S, n - 1)
         IN  shorter \cup {Append(q, w) : q \in shorter, w \in S}

ShortImages == SeqsUpTo(Platters, MaxImageLen)

\* Orthography and addition.
ImageAdd == <<Orth(0, 7), Orth(1, 8), Std(3, 2, 0, 1), Halt>>

\* Allocation, then a read of the new array.
ImageAllocate == <<Orth(0, 4), Std(8, 0, 1, 0), Orth(2, 2), Std(1, 3, 1, 2), Halt>>

\* Allocate twice, abandon both, allocate twice more, then a fresh one.
ImageReuse ==
    <<Std(8, 0, 1, 0), Std(8, 0, 2, 0), Std(9, 0, 0, 1), Std(9, 0, 0, 2),
      Std(8, 0, 3, 0), Std(8, 0, 4, 0), Std(8, 0, 5, 0), Std(1, 6, 1, 7), Halt>>

\* Division by zero.
ImageDivide == <<Orth(0, 10), Orth(1, 0), Std(5, 2, 0, 1)>>

\* A quotient, then a division by zero.
ImageQuotient == <<Orth(0, 7), Orth(1, 2), Std(5, 2, 0, 1), Std(5, 3, 1, 0), Std(5, 0, 0, 4)>>

\* 0xFFFFFFFF / 3, then 3 / 0xFFFFFFFF.
ImageWideQuotient == <<Orth(0, 3), Std(6, 1, 7, 7), Std(5, 2, 1, 0), Std(5, 3, 0, 1), Halt>>

\* R0 = 0, then at pc 1 a jump within array 0 to R0 = 0: a loop of two platters.
ImageSpin == <<Orth(0, 0), Std(12, 0, 0, 0)>>

\* Read a byte, write it, jump back.
ImageEcho == <<Std(11, 0, 0, 0), Std(10, 0, 0, 0), Std(12, 0, 7, 7)>>

\* An array of two non-zero words recycled at a smaller, a larger and an
\* equal capacity.
ImageRecycle ==
    <<Orth(0, 2), Std(8, 0, 1, 0), Std(2, 1, 7, 0), Orth(2, 1), Std(2, 1, 2, 0),
      Std(9, 0, 0, 1), Std(8, 0, 3, 2), Std(2, 3, 7, 0), Std(9, 0, 0, 3),
      Std(8, 0, 4, 0), Std(2, 4, 7, 0), Std(9, 0, 0, 4), Std(8, 0, 5, 0), Halt>>

\* Copy word 6 of the program into a new array, load that array, and let
\* the loaded word amend array 0.
ImageLoadThenAmendZero ==
    <<Orth(0, 3), Std(8, 0, 1, 0), Orth(2, 6), Std(1, 3, 7, 2), Std(2, 1, 7, 3),
      Std(12, 0, 1, 7), Std(2, 7, 7, 1)>>

\* The same, the loaded word amending the source array.
ImageLoadThenAmendSource ==
    <<Orth(0, 3), Std(8, 0, 1, 0), Orth(2, 6), Std(1, 3, 7, 2), Std(2, 1, 7, 3),
      Std(12, 0, 1, 7), Std(2, 1, 7, 1)>>

\* A jump inside array 0, over an undefined operation.
ImageJump == <<Orth(0, 2), Std(12, 0, 7, 0), Halt, Std(15, 0, 0, 0)>>

\* Not-and, multiplication, conditional move, addition, and an output
\* that is no byte.
ImageArithmetic ==
    <<Orth(0, 3), Std(6, 1, 0, 0), Std(4, 2, 1, 1), Std(0, 3, 1, 0), Std(0, 4, 1, 7),
      Std(3, 5, 1, 0), Std(10, 0, 0, 1)>>

\* Abandon an array, then use its identifier in every way.
ImageUseAfterAbandon(w) ==
    <<Orth(0, 1), Std(8, 0, 1, 0), Std(8, 0, 2, 0), Std(9, 0, 0, 1), w>>

\* R0 = 1, then at pc 1 a jump within array 0 (R1 = 0) to R0 = 1: to itself.
ImageSelfJump == <<Orth(0, 1), Std(12, 0, 1, 0)>>

\* op 12 names a copy to load and its own pc as the target.
ImageLoadAtOwnPc == <<Std(8, 0, 1, 0), Std(12, 0, 1, 1)>>

\* A three-register platter with every bit the decoder ignores set.
StdFilled(op, a, b, c) == <<op * 4096 + 4095, 65024 + a * 64 + b * 8 + c>>

\* Platters whose unused bits are all set, then the all-ones platter (op 15).
ImageIgnoredBits ==
    <<Orth(7, 33554431), StdFilled(3, 5, 7, 7), StdFilled(0, 2, 5, 5), <<65535, 65535>>>>

\* R1 = not-and(0, 0) = 0xFFFFFFFF, then a jump there within array 0.
ImageJumpToAllOnes == <<Std(6, 1, 7, 7), Std(12, 0, 7, 1), Halt>>

Scenarios == {
    ImageAdd, ImageAllocate, ImageReuse, ImageDivide, ImageQuotient, ImageWideQuotient,
    ImageSpin,
    ImageEcho, ImageRecycle, ImageLoadThenAmendZero, ImageLoadThenAmendSource,
    ImageJump, ImageArithmetic, ImageSelfJump, ImageLoadAtOwnPc, ImageIgnoredBits,
    ImageJumpToAllOnes }
    \cup {ImageUseAfterAbandon(w) :
            w \in {Std(1, 3, 1, 7), Std(2, 1, 7, 0), Std(9, 0, 0, 1), Std(12, 0, 1, 7)}}

\* The program images run is given.
Images == ShortImages \cup Scenarios

\* What add_input seeds: "HI", and a char that is no byte.
Seeds == {<<72, 73>>, <<9786>>}

\* The bytes the external source may deliver.
StdinBytes == {10, 200}

\* ------------------------------------------------------------ construction

\* The dispatch of no instruction yet.
NoInst == [fetched |-> FALSE, pc |-> Zero, op |-> 0, a |-> Zero, b |-> Zero, c |-> Zero]

Snapshot ==
    [pc |-> pc, registers |-> registers, arrays |-> arrays,
     free_arrays |-> free_arrays, input |-> input, store |-> store,
     stdout |-> stdout, stdinRead |-> stdinRead, outstanding |-> outstanding,
     delivered |-> delivered]

\* Machine::default: pc 0, registers 0, one empty active array 0.
Init ==
    /\ pc = Zero
    /\ registers = [r \in 0..7 |-> Zero]
    /\ free_arrays = <<>>
    /\ arrays = <<Some(0)>>
    /\ store = [h \in {0} |-> <<>>]
    /\ input = <<>>
    /\ stdout = <<>>
    /\ stdinRead = <<>>
    /\ stdinEof = FALSE
    /\ state = "setup"
    /\ err = NoError
    /\ last = NoInst
    /\ outstanding = <<>>
    /\ copyOf = Zero
    /\ delivered = <<>>
    /\ seeded = <<>>
    /\ steps = 0
    /\ pre = [pc |-> Zero, registers |-> [r \in 0..7 |-> Zero], arrays |-> <<Some(0)>>,
              free_arrays |-> <<>>, input |-> <<>>, store |-> [h \in {0} |-> <<>>],
              stdout |-> <<>>, stdinRead |-> <<>>, outstanding |-> <<>>,
              delivered |-> <<>>]

\* Machine::extend_from, as main calls it: the big-endian words of the file
\* are appended to array 0, or InactiveArray is returned when there is none.
ExtendFrom(image) ==
    /\ state = "setup"
    /\ IF IsActive(arrays, Zero)
       THEN /\ store' = [store EXCEPT ![Unwrap(arrays[1])] = @ \o image]
            /\ state' = "loaded"
            /\ err' = err
       ELSE /\ store' = store
            /\ state' = "error"
            /\ err' = InactiveArray(pc, Zero)
    /\ UNCHANGED <<pc, registers, arrays, free_arrays, input, stdout, stdinRead, delivered,
                   seeded,
                   stdinEof, last, pre, outstanding, copyOf, steps>>

\* Machine::add_input
AddInput(chars) ==
    /\ state = "loaded"
    /\ input' = input \o chars
    /\ seeded' = seeded \o chars
    /\ state' = "seeded"
    /\ UNCHANGED <<pc, registers, arrays, free_arrays, store, stdout, stdinRead,
                   delivered, stdinEof, err, last, pre, outstanding, copyOf, steps>>

\* Machine::run is entered.
RunStart ==
    /\ state \in {"loaded", "seeded"}
    /\ state' = "running"
    /\ UNCHANGED <<pc, registers, arrays, free_arrays, input, store, stdout,
                   stdinRead, delivered,
                   seeded, stdinEof, err, last, pre, outstanding, copyOf, steps>>

\* --------------------------------------------------------------- the loop

\* let inst = self.read_value(0, self.pc)
Fetch == ReadValue(arrays, store, pc, Zero, pc)

Inst == Fetch.val

\* The loop is about to dispatch an instruction of operation op.
Dispatch(op) ==
    /\ state = "running"
    /\ steps < MaxSteps
    /\ Fetch.ok
    /\ OpOf(Inst) = op

A == Decode(Inst).a

B == Decode(Inst).b

C == Decode(Inst).c

\* History of the dispatch.
Record ==
    /\ last' = [fetched |-> TRUE, pc |-> pc, op |-> OpOf(Inst), a |-> A, b |-> B, c |-> C]
    /\ pre' = Snapshot
    /\ steps' = steps + 1

\* return Err(e), but only once the pc has been moved on.
FailsAfterAdvance(e) ==
    /\ state' = "error"
    /\ err' = e
    /\ pc' = PcNext(pc)
    /\ UNCHANGED <<registers, arrays, free_arrays, input, store, stdout,
                   stdinRead, delivered, seeded, stdinEof, outstanding, copyOf>>

\* return Err(e)
Fails(e) ==
    /\ state' = "error"
    /\ err' = e
    /\ UNCHANGED <<pc, registers, arrays, free_arrays, input, store, stdout,
                   stdinRead, delivered, seeded, stdinEof, outstanding, copyOf>>

\* The fetch fails: run returns the error of read_value.
FetchFails ==
    /\ state = "running"
    /\ steps < MaxSteps
    /\ ~Fetch.ok
    /\ state' = "error"
    /\ err' = Fetch.err
    /\ last' = [NoInst EXCEPT !.pc = pc]
    /\ pre' = Snapshot
    /\ steps' = steps + 1
    /\ UNCHANGED <<pc, registers, arrays, free_arrays, input, store, stdout,
                   stdinRead, delivered, seeded, stdinEof, outstanding, copyOf>>

\* #0. Conditional Move.
Op0 ==
    /\ Dispatch(0)
    /\ Record
    /\ LET val == IF ReadReg(C) # Zero THEN ReadReg(B) ELSE ReadReg(A)
       IN  registers' = WriteReg(A, val)
    /\ pc' = PcNext(pc)
    /\ UNCHANGED <<arrays, free_arrays, input, store, stdout, stdinRead, delivered,
                   seeded, stdinEof,
                   state, err, outstanding, copyOf>>

\* #1. Array Index.
Op1 ==
    /\ Dispatch(1)
    /\ Record
    /\ LET r == ReadValue(arrays, store, pc, ReadReg(B), ReadReg(C))
       IN  IF r.ok
           THEN /\ registers' = WriteReg(A, r.val)
                /\ pc' = PcNext(pc)
                /\ UNCHANGED <<arrays, free_arrays, input, store, stdout,
                               stdinRead, delivered,
                               seeded, stdinEof, state, err, outstanding, copyOf>>
           ELSE Fails(r.err)

\* #2. Array Amendment.
Op2 ==
    /\ Dispatch(2)
    /\ Record
    /\ LET w == WriteValue(arrays, store, pc, ReadReg(A), ReadReg(B), ReadReg(C))
       IN  IF w.ok
           THEN /\ store' = w.store
                /\ pc' = PcNext(pc)
                /\ UNCHANGED <<registers, arrays, free_arrays, input, stdout,
                               stdinRead, delivered,
                               seeded, stdinEof, state, err, outstanding, copyOf>>
           ELSE Fails(w.err)

\* #3. Addition.
Op3 ==
    /\ Dispatch(3)
    /\ Record
    /\ registers' = WriteReg(A, WrappingAdd(ReadReg(B), ReadReg(C)))
    /\ pc' = PcNext(pc)
    /\ UNCHANGED <<arrays, free_arrays, input, store, stdout, stdinRead, delivered,
                   seeded, stdinEof,
                   state, err, outstanding, copyOf>>

\* #4. Multiplication.
Op4 ==
    /\ Dispatch(4)
    /\ Record
    /\ registers' = WriteReg(A, WrappingMul(ReadReg(B), ReadReg(C)))
    /\ pc' = PcNext(pc)
    /\ UNCHANGED <<arrays, free_arrays, input, store, stdout, stdinRead, delivered,
                   seeded, stdinEof,
                   state, err, outstanding, copyOf>>

\* #5. Division.
Op5 ==
    /\ Dispatch(5)
    /\ Record
    /\ LET divisor == ReadReg(C)
       IN  IF divisor = Zero
           THEN Fails(DivisionByZero(pc))
           ELSE /\ registers' = WriteReg(A, Quotient(ReadReg(B), divisor))
                /\ pc' = PcNext(pc)
                /\ UNCHANGED <<arrays, free_arrays, input, store, stdout,
                               stdinRead, delivered,
                               seeded, stdinEof, state, err, outstanding, copyOf>>

\* #6. Not-And.
Op6 ==
    /\ Dispatch(6)
    /\ Record
    /\ registers' = WriteReg(A, NotAnd(ReadReg(B), ReadReg(C)))
    /\ pc' = PcNext(pc)
    /\ UNCHANGED <<arrays, free_arrays, input, store, stdout, stdinRead, delivered,
                   seeded, stdinEof,
                   state, err, outstanding, copyOf>>

\* Op 7 without the break: the loop goes on with the next platter.
Op7Continues ==
    /\ Dispatch(7)
    /\ Record
    /\ pc' = PcNext(pc)
    /\ UNCHANGED <<registers, arrays, free_arrays, input, store, stdout, stdinRead,
                   delivered, seeded, stdinEof, state, err, outstanding, copyOf>>

\* #7. Halt: break, and run returns Ok(()).
Op7 ==
    /\ Dispatch(7)
    /\ Record
    /\ state' = "halted"
    /\ UNCHANGED <<pc, registers, arrays, free_arrays, input, store, stdout,
                   stdinRead, delivered, seeded, stdinEof, err, outstanding, copyOf>>

\* #8. Allocation.
Op8 ==
    /\ Dispatch(8)
    /\ Below(ReadReg(C), MaxCap + 1)
    /\ (free_arrays = <<>>) => NumArrays < MaxArrays
    /\ Record
    /\ LET cap == ToNat(ReadReg(C))
           popped == Pop(free_arrays)
           idx == popped.top[1]
           mem == popped.top[2]
           h == NewHandle(store)
           array == IF free_arrays # <<>> THEN idx ELSE FreshId(NumArrays + 1)
       IN  /\ IF free_arrays # <<>>
              THEN /\ free_arrays' = popped.rest
                   /\ store' = [store EXCEPT ![mem] = Recycle(@, cap)]
                   /\ arrays' = [arrays EXCEPT ![ToNat(idx) + 1] = Some(mem)]
              ELSE /\ free_arrays' = free_arrays
                   /\ store' = Put(store, h, Zeros(cap))
                   /\ arrays' = Append(arrays, Some(h))
           /\ registers' = WriteReg(B, array)
           /\ outstanding' = Without(outstanding, array)
    /\ pc' = PcNext(pc)
    /\ UNCHANGED <<input, stdout, stdinRead, delivered,
                   seeded, stdinEof, state, err, copyOf>>

\* #9. Abandonment.
Op9 ==
    /\ Dispatch(9)
    /\ Record
    /\ LET array == ReadReg(C)
       IN  IF IsActive(arrays, array)
           THEN /\ arrays' = Take(arrays, array)
                /\ free_arrays' = Append(free_arrays, <<array, Unwrap(arrays[ToNat(array) + 1])>>)
                /\ pc' = PcNext(pc)
                /\ outstanding' = Append(outstanding, array)
                /\ copyOf' = IF array = copyOf THEN Zero ELSE copyOf
                /\ UNCHANGED <<registers, input, store, stdout, stdinRead, delivered,
                               seeded,
                               stdinEof, state, err>>
           ELSE Fails(InactiveArray(pc, array))

\* #10. Output.
Op10 ==
    /\ Dispatch(10)
    /\ Record
    /\ LET ch == ReadReg(C)
       IN  IF ~Below(ch, 256)
           THEN Fails(InvalidChar(pc, ch))
           ELSE /\ stdout' = Append(stdout, AsU8(ToNat(ch)))
                /\ pc' = PcNext(pc)
                /\ UNCHANGED <<registers, arrays, free_arrays, input, store,
                               stdinRead, delivered,
                               seeded, stdinEof, state, err, outstanding, copyOf>>

\* What stdin.read_exact of one byte may give: a byte, or end of input.
\* self.input.pop_front(): the oldest seeded char leaves the queue.
PopBackChar(queue) ==
    [ch |-> queue[Len(queue)], rest |-> SubSeq(queue, 1, Len(queue) - 1)]

PopFrontChar(queue) == [ch |-> Head(queue), rest |-> Tail(queue)]

\* Op 11 writes the byte it read to stdout before it stores it.
EchoNone(out, ch) == out

Echo(out, ch) == Append(out, AsU8(ch))

StdinOutcomes ==
    {[eof |-> TRUE, byte |-> 0]}
        \cup (IF ~stdinEof /\ Len(stdinRead) < MaxStdin
              THEN {[eof |-> FALSE, byte |-> b] : b \in StdinBytes}
              ELSE {})

\* #11. Input.
Op11 ==
    /\ Dispatch(11)
    /\ Record
    /\ \E r \in StdinOutcomes :
        IF input = <<>> /\ r.eof
        THEN /\ stdinEof' = TRUE
             /\ state' = "error"
             /\ err' = IOError
             /\ UNCHANGED <<pc, registers, arrays, free_arrays, input, store,
                            stdout, stdinRead, delivered, seeded, outstanding, copyOf>>
        ELSE LET ch == IF input # <<>> THEN PopFrontChar(input).ch ELSE r.byte
             IN  /\ input' = IF input # <<>> THEN PopFrontChar(input).rest ELSE input
                 /\ stdinRead' = IF input # <<>> THEN stdinRead
                                 ELSE Append(stdinRead, r.byte)
                 /\ delivered' = Append(delivered,
                        [src |-> IF input # <<>> THEN "queue" ELSE "stdin", ch |-> ch])
                 /\ stdout' = Echo(stdout, ch)
                 /\ registers' = WriteReg(C, FromNat(ch))
                 /\ pc' = PcNext(pc)
                 /\ UNCHANGED <<arrays, free_arrays, store, stdinEof, state, err,
                                outstanding, copyOf, seeded>>

\* The jump op 12 refuses: array 0 is kept and the target is this very pc.
IsSpinAnyArray(array, target, p) == target = p

IsSpin(array, target, p) == array = Zero /\ target = p

\* #12. Load Program.
Op12 ==
    /\ Dispatch(12)
    /\ Record
    /\ LET array == ReadReg(B)
       IN  IF IsSpin(array, ReadReg(C), pc)
           THEN Fails(InfiniteLoop(pc))
           ELSE IF array # Zero /\ ~IsActive(arrays, array)
           THEN Fails(InactiveArray(pc, array))
           ELSE /\ arrays' = LoadProgram(arrays, store, array).arrays
                /\ store' = LoadProgram(arrays, store, array).store
                /\ copyOf' = IF array # Zero THEN array ELSE copyOf
                /\ pc' = ReadReg(C)
                /\ UNCHANGED <<registers, free_arrays, input, stdout, stdinRead, delivered,
                               seeded,
                               stdinEof, state, err, outstanding>>

\* #13. Orthography.
Op13 ==
    /\ Dispatch(13)
    /\ Record
    /\ registers' = WriteReg(A, B)
    /\ pc' = PcNext(pc)
    /\ UNCHANGED <<arrays, free_arrays, input, store, stdout, stdinRead, delivered,
                   seeded, stdinEof,
                   state, err, outstanding, copyOf>>

\* Any other operation: InvalidOp.
OpInvalid ==
    /\ state = "running"
    /\ steps < MaxSteps
    /\ Fetch.ok
    /\ OpOf(Inst) > 13
    /\ Record
    /\ Fails(InvalidOp(pc, FromNat(OpOf(Inst))))

\* main: the file named on the command line is loaded.
Load == state = "setup" /\ \E image \in Images : ExtendFrom(image)

\* main: pending input is seeded before run.
Seed == state = "loaded" /\ \E chars \in Seeds : AddInput(chars)

Next ==
    \/ Load
    \/ Seed
    \/ RunStart
    \/ FetchFails
    \/ Op0
    \/ Op1
    \/ Op2
    \/ Op3
    \/ Op4
    \/ Op5
    \/ Op6
    \/ Op7
    \/ Op8
    \/ Op9
    \/ Op10
    \/ Op11
    \/ Op12
    \/ Op13
    \/ OpInvalid

Spec == Init /\ [][Next]_vars

\* ------------------------------------------------------------------ claims

\* The instruction dispatched last was one of operation op.
After(op) == last.fetched /\ last.op = op

\* A register as it was when that instruction was fetched.
PreReg(reg) == pre.registers[ToNat(reg)]

\* The run went on past that instruction.
Continued == state = "running" /\ err = NoError

InSeq(x, seq) == \E i \in 1..Len(seq) : seq[i] = x

\* The active identifiers of a heap.
ActiveIds(arrs) == {i \in 0..(Len(arrs) - 1) : arrs[i + 1] # None}

\* No buffer backs two active arrays.
NoSharedStorage ==
    \A i, j \in ActiveIds(arrays) : i # j => Unwrap(arrays[i + 1]) # Unwrap(arrays[j + 1])

\* The identifier op 8 has just placed in R[b].
Allocated == registers[ToNat(last.b)]

\* C1: no two active arrays share an identifier or a buffer; the identifier
\* op 8 places in R[b] named no active array when the instruction was
\* fetched (its slot was inactive or did not exist), it names one now, and
\* every other slot is bound as it was.
C1_AllocatedIdentifierWasInactive ==
    /\ NoSharedStorage
    /\ After(8) =>
        /\ ~IsActive(pre.arrays, Allocated)
        /\ IsActive(arrays, Allocated)
        /\ \A i \in 0..(Len(pre.arrays) - 1) :
            i # ToNat(Allocated) => arrays[i + 1] = pre.arrays[i + 1]

\* C1 witness: op 8 has reissued an abandoned identifier while another
\* allocated array was active.
C1_Witness ==
    /\ After(8)
    /\ Below(Allocated, Len(pre.arrays))
    /\ \E i \in ActiveIds(pre.arrays) : i # 0

\* C2: op 8 never places 0 in R[b]; once array 0 has been abandoned no
\* further instruction is dispatched, so identifier 0 is never reissued.
C2_AllocatedIdentifierNonZero ==
    /\ After(8) => Allocated # Zero
    /\ ~IsActive(arrays, Zero) =>
        \/ state = "error"
        \/ After(9) /\ PreReg(last.c) = Zero

\* C2 witness: op 8 has minted a fresh identifier, the free list being empty.
C2_Witness ==
    /\ After(8)
    /\ pre.free_arrays = <<>>
    /\ Allocated = FromNat(Len(pre.arrays))
    /\ Allocated # Zero

\* The capacity op 8 was asked for.
Capacity == ToNat(PreReg(last.c))

\* C3: right after op 8 the array bound to the returned identifier has
\* exactly R[c] words and every one of them is 0, recycled storage or not.
C3_AllocatedArrayIsZeroed ==
    After(8) =>
        /\ IsActive(arrays, Allocated)
        /\ Len(Contents(arrays, store, Allocated)) = Capacity
        /\ \A i \in 1..Capacity : Contents(arrays, store, Allocated)[i] = Zero

\* The words of the buffer on top of the free list when op 8 was fetched.
RecycledWords == pre.store[pre.free_arrays[Len(pre.free_arrays)][2]]

\* C3 witness: op 8 has recycled a buffer of exactly the capacity asked
\* for that held a non-zero word.
C3_Witness ==
    /\ After(8)
    /\ pre.free_arrays # <<>>
    /\ Capacity > 0
    /\ Len(RecycledWords) = Capacity
    /\ \E i \in 1..Capacity : RecycledWords[i] # Zero

\* The array identifier the last instruction (op 1, 2, 9 or 12) named.
NamedArray ==
    CASE last.op = 1 -> PreReg(last.b)
      [] last.op = 2 -> PreReg(last.a)
      [] last.op = 9 -> PreReg(last.c)
      [] last.op = 12 -> PreReg(last.b)

\* C4: op 1, 2, 9 or 12 naming an identifier that was abandoned and not
\* reissued since fails with InactiveArray carrying that identifier.
C4_AbandonedIdentifierIsInactive ==
    (last.fetched /\ last.op \in {1, 2, 9, 12} /\ InSeq(NamedArray, pre.outstanding)) =>
        /\ state = "error"
        /\ err = InactiveArray(last.pc, NamedArray)

\* C4 witness: op 12 has named an abandoned identifier.
C4_Witness ==
    /\ After(12)
    /\ InSeq(NamedArray, pre.outstanding)
    /\ err = InactiveArray(last.pc, NamedArray)

\* C5: op 9 with R[c] = 0 fails at that instruction with InactiveArray,
\* array 0 stays active and nothing is pushed onto the free list.
C5_AbandonZeroIsAnError ==
    (After(9) /\ PreReg(last.c) = Zero) =>
        /\ state = "error"
        /\ err = InactiveArray(last.pc, Zero)
        /\ IsActive(arrays, Zero)
        /\ free_arrays = pre.free_arrays

\* C6: op 8 returns the most recently abandoned identifier that has not
\* been reissued, and the number of heap slots only when there is none.
C6_ReissueIsLastInFirstOut ==
    After(8) =>
        Allocated = IF pre.outstanding # <<>>
                    THEN pre.outstanding[Len(pre.outstanding)]
                    ELSE FromNat(Len(pre.arrays))

\* C6 witness: two different identifiers were outstanding and op 8 has
\* returned the later one.
C6_Witness ==
    /\ After(8)
    /\ Len(pre.outstanding) >= 2
    /\ pre.outstanding[1] # pre.outstanding[Len(pre.outstanding)]
    /\ Allocated = pre.outstanding[Len(pre.outstanding)]

\* The source array op 12 named, and its words when op 12 was fetched.
Source == PreReg(last.b)

SourceWords == Contents(pre.arrays, pre.store, Source)

\* C7: op 12 naming an active array k # 0 leaves array 0 holding the words
\* k held, PC = R[c], and k active with the same words; afterwards an
\* amendment of array 0 leaves the words of k as they were, and an amendment
\* of k leaves the words of array 0 as they were.
C7_LoadProgramCopies ==
    /\ (After(12) /\ Source # Zero /\ IsActive(pre.arrays, Source)) =>
        /\ Continued
        /\ IsActive(arrays, Zero)
        /\ Contents(arrays, store, Zero) = SourceWords
        /\ pc = PreReg(last.c)
        /\ IsActive(arrays, Source)
        /\ Contents(arrays, store, Source) = SourceWords
    /\ (After(2) /\ Continued /\ copyOf # Zero /\ PreReg(last.a) = Zero) =>
        Contents(arrays, store, copyOf) = Contents(pre.arrays, pre.store, copyOf)
    /\ (After(2) /\ Continued /\ copyOf # Zero /\ PreReg(last.a) = copyOf) =>
        Contents(arrays, store, Zero) = Contents(pre.arrays, pre.store, Zero)

\* C7 witness: after op 12 copied array k over array 0, op 2 has amended
\* array 0, which now differs from k.
C7_Witness ==
    /\ After(2)
    /\ Continued
    /\ copyOf # Zero
    /\ PreReg(last.a) = Zero
    /\ Contents(pre.arrays, pre.store, Zero) = Contents(pre.arrays, pre.store, copyOf)
    /\ Contents(arrays, store, Zero) # Contents(arrays, store, copyOf)

\* C8: op 12 with R[b] = 0 leaves PC = R[c] and changes nothing else: the
\* arrays and their buffers, the free list, the registers and the input queue
\* are as they were.
C8_SelfLoadChangesOnlyPc ==
    (After(12) /\ Source = Zero) =>
        /\ pc = PreReg(last.c)
        /\ arrays = pre.arrays
        /\ store = pre.store
        /\ free_arrays = pre.free_arrays
        /\ registers = pre.registers
        /\ input = pre.input

\* C8 witness: op 12 with R[b] = 0 has moved the PC.
C8_Witness ==
    /\ After(12)
    /\ Source = Zero
    /\ Continued
    /\ pc # pre.pc
    /\ Len(Contents(arrays, store, Zero)) > 0

AllOnes == <<65535, 65535>>

\* C9: op 11 with the seeded queue empty and the external source at end of
\* input stores 0xFFFFFFFF in R[c], advances the PC by one and the run goes on.
C9_EndOfInputStoresAllOnes ==
    (After(11) /\ pre.input = <<>> /\ stdinEof) =>
        /\ registers[ToNat(last.c)] = AllOnes
        /\ pc = PcNext(pre.pc)
        /\ Continued

\* C10: op 5 with R[c] = 0 fails with DivisionByZero carrying the PC of the
\* instruction and leaves every register and the PC as they were; otherwise
\* R[a] becomes the unsigned quotient floor(R[b] / R[c]), no other register
\* changes and the PC advances by one.
C10_Division ==
    After(5) =>
        IF PreReg(last.c) = Zero
        THEN /\ state = "error"
             /\ err = DivisionByZero(last.pc)
             /\ registers = pre.registers
             /\ pc = pre.pc
        ELSE LET n == PreReg(last.b)
                 d == PreReg(last.c)
                 q == registers[ToNat(last.a)]
                 r == WrappingSub(n, WrappingMul(q, d))
             IN  /\ Continued
                 /\ pc = PcNext(pre.pc)
                 /\ \A i \in 0..7 : i # ToNat(last.a) => registers[i] = pre.registers[i]
                 /\ (Fits(n) /\ Fits(d)) => (Fits(q) /\ ToNat(q) = ToNat(n) \div ToNat(d))
                 /\ Geq(n, q) /\ ~Geq(r, d)
                 /\ (Fits(n) /\ ~Fits(d)) => q = Zero

\* C10 witness: op 5 has stored a quotient that is neither 0 nor the
\* dividend, the division leaving a remainder.
C10_Witness ==
    /\ After(5)
    /\ Continued
    /\ PreReg(last.c) # Zero
    /\ registers[ToNat(last.a)] # Zero
    /\ registers[ToNat(last.a)] # PreReg(last.b)
    /\ WrappingMul(registers[ToNat(last.a)], PreReg(last.c)) # PreReg(last.b)

\* ------------------------------------------------------------------- C11

\* The echo program is what runs: read a byte, write it, start over.
EchoLoaded ==
    /\ state \in {"running", "error"}
    /\ IsActive(arrays, Zero)
    /\ Contents(arrays, store, Zero) = ImageEcho

\* What op 11 has handed to the program so far, in order.
DeliveredChars == [i \in 1..Len(delivered) |-> delivered[i].ch]

\* Every input so far was a byte.
InputIsBytes == \A i \in 1..Len(delivered) : delivered[i].ch < 256

\* Each element twice, in order.
Doubled(seq) == [i \in 1..(2 * Len(seq)) |-> seq[(i + 1) \div 2]]

\* C11: a program that reads each input byte with op 11 and writes it with
\* op 10 has, whenever it is about to read again, written to the output
\* sink exactly the bytes it has read: same bytes, same order, none extra.
C11_RoundTrip ==
    (EchoLoaded /\ InputIsBytes /\ pc = Zero) => stdout = DeliveredChars

\* C11 (amended): a program that reads each input byte with op 11 and writes
\* it with op 10 has, whenever it is about to read again, written every byte
\* it has read twice, in order: op 11's own echo, then op 10's write.
C11_RoundTripWithEcho ==
    (EchoLoaded /\ InputIsBytes /\ pc = Zero) => stdout = Doubled(DeliveredChars)

\* Two seeded bytes and two bytes of the external source went round.
C11_Witness ==
    /\ EchoLoaded
    /\ InputIsBytes
    /\ pc = Zero
    /\ Len(delivered) = 4
    /\ stdinRead # <<>>
    /\ Len(stdout) = 8

\* ------------------------------------------------------------------- C12

IsFromQueue(d) == d.src = "queue"

IsFromStdin(d) == d.src = "stdin"

CharsOf(ds) == [i \in 1..Len(ds) |-> ds[i].ch]

\* What op 11 took from the seeded queue, and from the external source.
FromQueue == CharsOf(SelectSeq(delivered, IsFromQueue))

FromStdin == CharsOf(SelectSeq(delivered, IsFromStdin))

\* C12: successive op 11 deliver the seeded bytes in the order add_input
\* queued them, one per execution; the external source is not read while the
\* queue holds a byte; once the queue is empty every later op 11 reads the
\* external source.
C12_SeededInputFirst ==
    /\ FromQueue \o input = seeded
    /\ FromStdin = stdinRead
    /\ \A i, j \in 1..Len(delivered) :
          (i < j /\ IsFromStdin(delivered[i])) => IsFromStdin(delivered[j])
    /\ (After(11) /\ pre.input # <<>>) =>
          /\ Continued
          /\ delivered = Append(pre.delivered, [src |-> "queue", ch |-> Head(pre.input)])
          /\ input = Tail(pre.input)
          /\ registers[ToNat(last.c)] = FromNat(Head(pre.input))
          /\ stdinRead = pre.stdinRead
          /\ ~stdinEof
    /\ (After(11) /\ pre.input = <<>> /\ Continued) =>
          /\ Len(stdinRead) = Len(pre.stdinRead) + 1
          /\ delivered = Append(pre.delivered,
                [src |-> "stdin", ch |-> stdinRead[Len(stdinRead)]])
          /\ registers[ToNat(last.c)] = FromNat(stdinRead[Len(stdinRead)])
          /\ input = <<>>

\* Both seeded bytes were delivered, then a byte of the external source.
C12_Witness ==
    /\ Len(seeded) = 2
    /\ Len(delivered) = 3
    /\ FromQueue = seeded
    /\ IsFromStdin(delivered[3])
    /\ After(11)

\* ------------------------------------------------------------------- C13

ProgramAtFetch == Contents(pre.arrays, pre.store, Zero)

\* The machine is as it was at the last fetch.
MachineAsAtFetch ==
    /\ pc = pre.pc
    /\ registers = pre.registers
    /\ arrays = pre.arrays
    /\ free_arrays = pre.free_arrays
    /\ store = pre.store
    /\ input = pre.input

\* C14: an instruction is decoded and executed only if, at its fetch, array 0
\* was active and the PC was below its length; a fetch with the PC at or past
\* the length of array 0 (the PC equal to the length, an empty array 0) makes
\* run return OutOfBounds with the PC, array 0, offset PC and that length,
\* and changes no register, no array and not the PC.
C14_FetchWithinArrayZero ==
    /\ last.fetched =>
          /\ IsActive(pre.arrays, Zero)
          /\ Below(pre.pc, Len(ProgramAtFetch))
          /\ last.pc = pre.pc
    /\ (steps > 0 /\ IsActive(pre.arrays, Zero)
            /\ ~Below(pre.pc, Len(ProgramAtFetch))) =>
          /\ ~last.fetched
          /\ state = "error"
          /\ err = OutOfBounds(pre.pc, Zero, pre.pc, FromNat(Len(ProgramAtFetch)))
          /\ MachineAsAtFetch

\* A program that changed a register ran off the end of array 0.
C14_Witness ==
    /\ steps > 1
    /\ ~last.fetched
    /\ err.kind = "OutOfBounds"
    /\ Len(ProgramAtFetch) > 0
    /\ pc = FromNat(Len(ProgramAtFetch))
    /\ registers # [r \in 0..7 |-> Zero]

\* ------------------------------------------------------------------- C15

\* The errors an instruction can raise.
InstructionErrors ==
    {"DivisionByZero", "InactiveArray", "OutOfBounds", "InvalidChar", "InvalidOp",
     "InfiniteLoop"}

\* C15: no partial success. Once an instruction has raised DivisionByZero,
\* InactiveArray, OutOfBounds, InvalidChar, InvalidOp or InfiniteLoop, run has
\* returned and takes no further step, the error carries the PC of the
\* failing instruction, and the registers, every array, the free list, the PC
\* and the output written are as they were when that instruction was fetched.
C15_NoPartialSuccess ==
    (state = "error" /\ err.kind \in InstructionErrors) =>
        /\ err.pc = last.pc
        /\ last.pc = pre.pc
        /\ MachineAsAtFetch
        /\ stdout = pre.stdout
        /\ ~ENABLED Next

\* An output of a value above 255 failed after registers had been written
\* and a byte had been printed.
C15_Witness ==
    /\ state = "error"
    /\ After(10)
    /\ err.kind = "InvalidChar"
    /\ registers # [r \in 0..7 |-> Zero]
    /\ stdout # <<>>

\* ------------------------------------------------------------------- C16

\* C16: the engine is running or halted. run returns success exactly when
\* the instruction fetched at the PC has opcode 7; it returns an error only
\* when an instruction (its fetch included) raised one; after any other
\* instruction, of opcode 0..6 or 8..13, that succeeded, run has not returned:
\* it is back at the head of its loop, where it fetches at the new PC.
C16_RunningOrHalted ==
    /\ state = "halted" => (After(7) /\ err = NoError)
    /\ After(7) => state = "halted"
    /\ state = "error" <=> err # NoError
    /\ state = "error" => steps > 0
    /\ (last.fetched /\ last.op # 7 /\ err = NoError) =>
          /\ last.op \in (0..6) \cup (8..13)
          /\ state = "running"
          /\ last.pc = pre.pc

\* A program that printed something halted.
C16_Witness ==
    /\ state = "halted"
    /\ steps > 2
    /\ stdout # <<>>

\* ------------------------------------------------------------------- C17

\* The op 12 fetched last named array 0 and its own pc.
SelfJump == After(12) /\ PreReg(last.b) = Zero /\ PreReg(last.c) = last.pc

\* InfiniteLoop is returned for a self jump and for nothing else.
InfiniteLoopIffSelfJump ==
    /\ SelfJump => (state = "error" /\ err = InfiniteLoop(last.pc))
    /\ err.kind = "InfiniteLoop" => SelfJump

\* The op 12 at pc 1 of the given image has been executed.
Ran(image) ==
    /\ IsActive(arrays, Zero)
    /\ Contents(arrays, store, Zero) = image
    /\ After(12)
    /\ last.pc = FromNat(1)

\* C17: op 12 with R[b] = 0 and R[c] equal to the PC of that instruction
\* makes run return InfiniteLoop carrying that PC, as for the image
\* [op13(a=0, imm=0), op12(b=0, c=0)], where run returns InfiniteLoop at
\* PC = 1; InfiniteLoop is raised in no other situation: not with R[b] # 0
\* and R[c] = PC, not with R[b] = 0 and R[c] # PC.
C17_InfiniteLoopOnSelfJump ==
    /\ InfiniteLoopIffSelfJump
    /\ Ran(ImageSpin) => err = InfiniteLoop(FromNat(1))

\* C17 (amended): op 12 with R[b] = 0 and R[c] equal to the PC of that
\* instruction makes run return InfiniteLoop carrying that PC, as for the
\* image [op13(a=0, imm=1), op12(b=1, c=0)], where run returns InfiniteLoop
\* at PC = 1; InfiniteLoop is raised in no other situation. The image
\* [op13(a=0, imm=0), op12(b=0, c=0)] jumps from PC 1 to R[0] = 0, which is
\* not its own PC: no error is raised and the run goes on at PC 0.
C17_InfiniteLoopOnlyOnSelfJump ==
    /\ InfiniteLoopIffSelfJump
    /\ Ran(ImageSelfJump) => (state = "error" /\ err = InfiniteLoop(FromNat(1)))
    /\ Ran(ImageSpin) => (Continued /\ pc = Zero)

\* The self jump at pc 1 was refused.
C17_Witness ==
    /\ Ran(ImageSelfJump)
    /\ SelfJump
    /\ err = InfiniteLoop(FromNat(1))
    /\ pc = FromNat(1)

\* ------------------------------------------------------------------- C18

\* The platter fetched last.
Platter == ProgramAtFetch[ToNat(pre.pc) + 1]

\* Bits i+2, i+1, i of w as a number.
Field3(w, i) == 4 * Bit(w, i + 2) + 2 * Bit(w, i + 1) + Bit(w, i)

\* The register an operation may write: a, b or c, or none (8).
Destination ==
    CASE last.op \in {0, 1, 3, 4, 5, 6, 13} -> ToNat(last.a)
      [] last.op = 8 -> ToNat(last.b)
      [] last.op = 11 -> ToNat(last.c)
      [] OTHER -> 8

\* C18: every register index the engine uses is in 0..7, for every platter
\* and both layouts. Below opcode 13 the fields a, b, c are bits 6..8, 3..5,
\* 0..2; for opcode 13 the register is bits 25..27 and the immediate, bits
\* 0..24, is only ever the value stored; opcodes 14 and 15 raise InvalidOp
\* carrying the opcode and touch no register.
C18_RegisterIndicesInRange ==
    /\ DOMAIN registers = 0..7
    /\ last.fetched =>
          /\ last.op = 2 * Field3(Platter, 29) + Bit(Platter, 28)
          /\ last.op < 13 =>
                /\ last.a = FromNat(Field3(Platter, 6))
                /\ last.b = FromNat(Field3(Platter, 3))
                /\ last.c = FromNat(Field3(Platter, 0))
          /\ last.op = 13 =>
                /\ last.a = FromNat(Field3(Platter, 25))
                /\ \A i \in 0..31 :
                      Bit(registers[ToNat(last.a)], i)
                          = IF i < 25 THEN Bit(Platter, i) ELSE 0
          /\ last.op > 13 =>
                /\ state = "error"
                /\ err = InvalidOp(last.pc, FromNat(last.op))
                /\ registers = pre.registers
          /\ Destination \in 0..8
          /\ \A r \in 0..7 :
                registers[r] # pre.registers[r] => r = Destination

\* Platters with every ignored bit set were executed in both layouts, and
\* the all-ones platter was refused as operation 15.
C18_Witness ==
    /\ last.fetched
    /\ ProgramAtFetch = ImageIgnoredBits
    /\ last.op = 15
    /\ err = InvalidOp(FromNat(3), FromNat(15))
    /\ registers[7] = <<511, 65535>>
    /\ registers[2] = registers[5]
    /\ registers[5] # Zero

\* ------------------------------------------------------------------- C19

\* The identifiers held in the free list, oldest first.
FreeIds == [i \in 1..Len(free_arrays) |-> free_arrays[i][1]]

\* The free list and the inactive slots of the heap are the same identifiers,
\* each once, and the slots are the active arrays plus the free list.
FreeListMatchesHeap ==
    /\ \A i, j \in 1..Len(FreeIds) : i # j => FreeIds[i] # FreeIds[j]
    /\ \A i \in 1..Len(FreeIds) :
          Below(FreeIds[i], NumArrays) /\ ~IsActive(arrays, FreeIds[i])
    /\ \A k \in 0..(NumArrays - 1) :
          arrays[k + 1] = None => InSeq(FromNat(k), FreeIds)
    /\ NumArrays = Cardinality(ActiveIds(arrays)) + Len(free_arrays)

\* Identifier 0, and every identifier op 8 returned that has not been
\* abandoned since.
ZeroAndIssued ==
    {0} \cup {k \in 1..(NumArrays - 1) : ~InSeq(FromNat(k), outstanding)}

\* C19: in every state of a run the heap and the free list agree: the free
\* list holds pairwise distinct identifiers, each of an existing inactive
\* slot, and every inactive slot is in it exactly once; the active
\* identifiers are exactly identifier 0 plus those op 8 returned and op 9 has
\* not abandoned since; and the number of slots is the number of active
\* arrays plus the length of the free list.
C19_HeapAndFreeListAgree ==
    /\ FreeListMatchesHeap
    /\ ActiveIds(arrays) = ZeroAndIssued

\* ------------------------------------------------------------------- C20

\* The instruction fetched last went on to pc + 1.
Advanced == last.fetched /\ last.op \notin {7, 12} /\ Continued

\* C20: the pc increment never overflows. An instruction that advances the
\* pc by one was fetched at a pc of at most 2^32 - 2, since a fetch needs the
\* pc below the length of array 0, so the pc after it is not wrapped round to
\* 0; a jump of op 12 to R[c] = 0xFFFFFFFF is followed by a fetch that
\* fails, never by an increment.
C20_PcIncrementDoesNotWrap ==
    /\ Advanced =>
          /\ pre.pc # AllOnes
          /\ pc # Zero
          /\ pc = IF pre.pc[2] < 65535 THEN <<pre.pc[1], pre.pc[2] + 1>>
                  ELSE <<pre.pc[1] + 1, 0>>
    /\ (steps > 0 /\ pre.pc = AllOnes) =>
          /\ ~last.fetched
          /\ state = "error"
          /\ pc = AllOnes

\* Op 12 jumped to 0xFFFFFFFF within array 0 and the fetch there failed.
C20_Witness ==
    /\ pc = AllOnes
    /\ pre.pc = AllOnes
    /\ steps = 3
    /\ err = OutOfBounds(AllOnes, Zero, AllOnes, FromNat(3))

====
